---------------------------- MODULE Spec2Model ----------------------------
(***************************************************************************)
(* SongScribe.AI backend (src/main.py, src/schemas.py): the HTTP handlers  *)
(* and the document collections they read and write.                       *)
(*                                                                         *)
(* Every handler is cut at its database calls: one action runs the code    *)
(* up to and including one call to the store, so that the actions of       *)
(* requests in flight interleave exactly where the handlers of concurrent  *)
(* requests can.  The handlers of the four feature areas (auth, demo,      *)
(* order, sample) touch disjoint collections; each area has its own        *)
(* specification, and auth and demo have a second one in which requests    *)
(* are served strictly one after another.                                  *)
(***************************************************************************)
EXTENDS Integers, Sequences, FiniteSets, TLC

(***************************************************************************)
(* Bounds of the model.                                                    *)
(***************************************************************************)
MaxLogins == 2
MaxDemos == 2
MaxOrders == 2
MaxSamples == 2
MaxDay == 1

(***************************************************************************)
(* Python values.  A value is a record of its type tag t, its characters s *)
(* (a string is the sequence of its characters) and its number n.          *)
(***************************************************************************)
None == [t |-> "None", s |-> <<>>, n |-> 0]
PyStr(chars) == [t |-> "str", s |-> chars, n |-> 0]
OidValue(k) == [t |-> "ObjectId", s |-> <<>>, n |-> k]
PyList(items) == [t |-> "list", s |-> items, n |-> 0]
BoundMethod == [t |-> "method", s |-> <<>>, n |-> 0]

\* `if x:` on an Optional[str]: None and the empty string are falsy.
Truthy(v) == v.t = "str" /\ v.s # <<>>

\* `x or ""`
OrEmpty(v) == IF Truthy(v) THEN v ELSE PyStr(<<>>)

(***************************************************************************)
(* bson.ObjectId: str(oid) renders the id as a string of digits, and       *)
(* ObjectId(s) parses such a string back; a string that is no rendering of *)
(* an id is rejected (bson.errors.InvalidId).                              *)
(***************************************************************************)
Digits == <<"1", "2", "3", "4", "5", "6", "7", "8", "9">>
StrOfOid(oid) == PyStr(<<"0", "x", Digits[oid.n]>>)
IsOidString(v) ==
    /\ v.t = "str"
    /\ \E k \in 1..Len(Digits) : v = StrOfOid(OidValue(k))
ObjectId(v) == OidValue(CHOOSE k \in 1..Len(Digits) : v = StrOfOid(OidValue(k)))

(***************************************************************************)
(* pydantic's EmailStr (schemas.py: User.email, Order.email,               *)
(* DemoRequest.email): the value is stripped of surrounding blanks,        *)
(* checked for the syntax local@domain, and replaced by its normalized     *)
(* form, in which the domain is lower-cased.  The stored value is the      *)
(* normalized one; it differs from the payload's string whenever that      *)
(* string was not normalized already.                                      *)
(***************************************************************************)
RECURSIVE StripLeft(_)
StripLeft(chars) ==
    IF chars # <<>> /\ Head(chars) = " " THEN StripLeft(Tail(chars)) ELSE chars

RECURSIVE StripRight(_)
StripRight(chars) ==
    IF chars # <<>> /\ chars[Len(chars)] = " "
    THEN StripRight(SubSeq(chars, 1, Len(chars) - 1))
    ELSE chars

Strip(chars) == StripRight(StripLeft(chars))

Lower(c) ==
    CASE c = "A" -> "a"
      [] c = "B" -> "b"
      [] c = "I" -> "i"
      [] c = "O" -> "o"
      [] c = "X" -> "x"
      [] OTHER -> c

AtPositions(chars) == {i \in 1..Len(chars) : chars[i] = "@"}

EmailSyntaxOk(chars) ==
    /\ Cardinality(AtPositions(chars)) = 1
    /\ \A i \in 1..Len(chars) : chars[i] # " "
    /\ LET at == CHOOSE i \in AtPositions(chars) : TRUE
           dots == {i \in (at + 1)..Len(chars) : chars[i] = "."}
       IN  /\ at > 1
           /\ dots # {}
           /\ \A i \in dots : i > at + 1 /\ i < Len(chars)

NormalizeEmail(chars) ==
    LET at == CHOOSE i \in AtPositions(chars) : TRUE
    IN  [i \in 1..Len(chars) |-> IF i > at THEN Lower(chars[i]) ELSE chars[i]]

\* EmailStr on a str: [ok, value]; value is the normalized address.
EmailStr(v) ==
    IF v.t = "str" /\ EmailSyntaxOk(Strip(v.s))
    THEN [ok |-> TRUE, value |-> PyStr(NormalizeEmail(Strip(v.s)))]
    ELSE [ok |-> FALSE, value |-> None]

\* Optional[EmailStr]: None passes unchanged.
OptionalEmailStr(v) ==
    IF v = None THEN [ok |-> TRUE, value |-> None] ELSE EmailStr(v)

(***************************************************************************)
(* The request bodies the model draws its inputs from.                     *)
(***************************************************************************)
EmailA == PyStr(<<"a", "@", "x", ".", "i", "o">>)
EmailAUpper == PyStr(<<"a", "@", "X", ".", "i", "o">>)
EmailB == PyStr(<<"b", "@", "x", ".", "i", "o">>)
EmailMalformed == PyStr(<<"a", ".", "i", "o">>)
EmailEmpty == PyStr(<<>>)
EmailInputs == {EmailA, EmailAUpper, EmailB, EmailMalformed, EmailEmpty, None}
NameInputs == {None, PyStr(<<"A", "n", "n">>)}


(***************************************************************************)
(* Process-wide configuration (main.py, lines 59-67).                      *)
(***************************************************************************)
LicenseTiers == {"personal", "standard", "business", "exclusive"}
DeliverySpeeds == {"standard", "express", "super_express"}
DEFAULT_PRICING ==
    [tier \in LicenseTiers |->
        CASE tier = "personal" -> [price_cents |-> 1999, revisions |-> 1]
          [] tier = "standard" -> [price_cents |-> 3999, revisions |-> 2]
          [] tier = "business" -> [price_cents |-> 14900, revisions |-> 3]
          [] tier = "exclusive" -> [price_cents |-> 49900, revisions |-> 5]]
EXPRESS_FEES == [speed \in {"express", "super_express"} |->
                    IF speed = "express" THEN 900 ELSE 1900]
free_demo_per_day == 1
free_demo_enabled == TRUE
SampleCategories ==
    {"Love", "Birthday", "Kids", "Corporate", "Film", "Podcast", "Ads", "Other"}

\* EXPRESS_FEES.get(delivery_speed, 0)
ExpressFee(speed) == IF speed \in DOMAIN EXPRESS_FEES THEN EXPRESS_FEES[speed] ELSE 0

\* Mutant of PriceCents: the express fee is left out.
PriceCentsNoFee(tier, speed) == DEFAULT_PRICING[tier].price_cents

\* price_cents = pricing + fee (create_order, lines 172-173 and 196)
PriceCents(tier, speed) == DEFAULT_PRICING[tier].price_cents + ExpressFee(speed)

\* The two stub track URLs of create_order (lines 203-206).
audio_urls == PyList(<<"track1.mp3", "track2.mp3">>)

(***************************************************************************)
(* State.  A collection is the sequence of its documents in insertion      *)
(* order; no handler deletes a document.                                   *)
(*   today        the current UTC calendar date                            *)
(*   logins, demos, orders   the requests that entered auth_login,         *)
(*                create_demo, create_order, in order of arrival, each     *)
(*                with its position (pc), its local variables and, once    *)
(*                it has ended, its HTTP status and response               *)
(*   resp         the response of the handler step just taken, for the     *)
(*                handlers that finish in one step                         *)
(***************************************************************************)
VARIABLES today, user, demorequest, order, sample, logins, demos, orders, resp

vars == <<today, user, demorequest, order, sample, logins, demos, orders, resp>>

NoResp == [op |-> "none"]

(***************************************************************************)
(* The document store: database.create_document, database.get_documents    *)
(* and the driver's find_one / update_one on db["order"].                  *)
(***************************************************************************)
\* The id the store assigns to the next document of a collection.
InsertedId(coll) == OidValue(Len(coll) + 1)

\* create_document: the collection after the insert; the call returns
\* str(inserted_id).
create_document(coll, data) == Append(coll, [_id |-> InsertedId(coll)] @@ data)

\* A filter is a dict of field -> value; a document matches when it agrees
\* on every field of the filter (the empty dict matches every document).
Matches(doc, filter) == \A f \in DOMAIN filter : doc[f] = filter[f]

\* get_documents(collection, filter, limit): limit 0 stands for no limit.
get_documents(coll, filter, limit) ==
    LET found == SelectSeq(coll, LAMBDA d : Matches(d, filter))
    IN  IF limit > 0 /\ Len(found) > limit THEN SubSeq(found, 1, limit) ELSE found

\* A filter value the driver can encode as BSON; a bound method is not.
Encodable(v) == v.t # "method"

\* find_one({"_id": v}): the first matching document, or None.
find_one(coll, v) ==
    LET found == get_documents(coll, [_id |-> v], 1)
    IN  IF found = <<>> THEN None ELSE found[1]

\* update_one({"_id": v}, {"$set": fields}): the first matching document
\* gets the fields; no match is no change.
update_one(coll, v, fields) ==
    LET hits == {i \in 1..Len(coll) : coll[i]._id = v}
    IN  IF hits = {} THEN coll
        ELSE LET i == CHOOSE j \in hits : \A k \in hits : j <= k
             IN  [coll EXCEPT ![i] = fields @@ coll[i]]

(***************************************************************************)
(* POST /auth/login (main.py, lines 83-96).                                *)
(***************************************************************************)
AllEnded(reqs) == \A i \in 1..Len(reqs) : reqs[i].pc = "ended"

\* Request validation (AuthRequest: email is a required str), then line 91:
\* the lookup by the payload's email.
AuthLoginLookup(email, name) ==
    /\ Len(logins) < MaxLogins
    /\ logins' = Append(logins,
         IF email.t # "str"
         THEN [pc |-> "ended", email |-> email, name |-> name, existing |-> <<>>,
               status |-> 422, user_id |-> None]
         ELSE [pc |-> "l92", email |-> email, name |-> name,
               existing |-> get_documents(user, [email |-> email], 1),
               status |-> 0, user_id |-> None])
    /\ UNCHANGED <<today, user, demorequest, order, sample, demos, orders, resp>>

\* Mutant of AuthLoginFinish: the lookup is repeated together with the
\* create (an atomic upsert by email).
AuthLoginFinishUpsert(i) ==
    /\ logins[i].pc = "l92"
    /\ LET r == logins[i]
           checked == EmailStr(r.email)
           now == get_documents(user, [email |-> checked.value], 1)
       IN  IF r.existing # <<>>
           THEN /\ logins' = [logins EXCEPT ![i].pc = "ended", ![i].status = 200,
                                ![i].user_id = StrOfOid(r.existing[1]._id)]
                /\ user' = user
           ELSE IF ~checked.ok
           THEN /\ logins' = [logins EXCEPT ![i].pc = "ended", ![i].status = 500]
                /\ user' = user
           ELSE IF now # <<>>
           THEN /\ logins' = [logins EXCEPT ![i].pc = "ended", ![i].status = 200,
                                ![i].user_id = StrOfOid(now[1]._id)]
                /\ user' = user
           ELSE /\ user' = create_document(user,
                             [email |-> checked.value, name |-> OrEmpty(r.name)])
                /\ logins' = [logins EXCEPT ![i].pc = "ended", ![i].status = 200,
                                ![i].user_id = StrOfOid(InsertedId(user))]
    /\ UNCHANGED <<today, demorequest, order, sample, demos, orders, resp>>

\* Lines 92-96: answer with the user found, or validate and create one.
\* A ValidationError raised by User(...) inside the handler is an
\* unhandled exception: the request ends with status 500.
AuthLoginFinish(i) ==
    /\ logins[i].pc = "l92"
    /\ LET r == logins[i]
           checked == EmailStr(r.email)
       IN  IF r.existing # <<>>
           THEN /\ logins' = [logins EXCEPT ![i].pc = "ended", ![i].status = 200,
                                ![i].user_id = StrOfOid(r.existing[1]._id)]
                /\ user' = user
           ELSE IF ~checked.ok
           THEN /\ logins' = [logins EXCEPT ![i].pc = "ended", ![i].status = 500]
                /\ user' = user
           ELSE /\ user' = create_document(user,
                             [email |-> checked.value, name |-> OrEmpty(r.name)])
                /\ logins' = [logins EXCEPT ![i].pc = "ended", ![i].status = 200,
                                ![i].user_id = StrOfOid(InsertedId(user))]
    /\ UNCHANGED <<today, demorequest, order, sample, demos, orders, resp>>

(***************************************************************************)
(* POST /demo/create (main.py, lines 102-142).                             *)
(***************************************************************************)
\* datetime.now(timezone.utc) and its .date(); str() of either starts with
\* the calendar date.
Datetime(date) == [t |-> "datetime", s |-> <<>>, n |-> date]
StrOfDate(date) == PyStr(<<"D", Digits[date + 1]>>)
StrOfDatetime(dt) == PyStr(<<"D", Digits[dt.n + 1], " ", "0", "0", ":", "0", "0">>)
StartsWith(a, b) == Len(b.s) <= Len(a.s) /\ SubSeq(a.s, 1, Len(b.s)) = b.s

\* Lines 117-119: the filter holds the email only when one was given.
DemoFilter(email) == IF Truthy(email) THEN [email |-> email] ELSE <<>>

\* Lines 120-122: the matching demos created on the given date.
DemosToday(coll, email, date) ==
    SelectSeq(get_documents(coll, DemoFilter(email), 0),
              LAMBDA d : d.created_at # None
                         /\ StartsWith(StrOfDatetime(d.created_at), StrOfDate(date)))

\* Lines 113-124: the feature toggle, then the count of today's demos
\* against the daily limit.
CreateDemoCheck(email) ==
    /\ Len(demos) < MaxDemos
    /\ LET n == Len(DemosToday(demorequest, email, today))
           r == [pc |-> "ended", email |-> email, today |-> today, ndemos |-> n,
                 created |-> None, status |-> 0, id |-> None]
       IN  demos' = Append(demos,
             IF ~free_demo_enabled THEN [r EXCEPT !.status = 403, !.ndemos = 0]
             ELSE IF n >= free_demo_per_day THEN [r EXCEPT !.status = 429]
             ELSE [r EXCEPT !.pc = "l127"])
    /\ UNCHANGED <<today, user, demorequest, order, sample, logins, orders, resp>>

\* Mutant of CreateDemoPersist: the count is taken again at the insert, and
\* a request over the limit by then is turned away.
CreateDemoPersistRecheck(i) ==
    /\ demos[i].pc = "l127"
    /\ LET checked == OptionalEmailStr(demos[i].email)
       IN  IF ~checked.ok
           THEN /\ demos' = [demos EXCEPT ![i].pc = "ended", ![i].status = 500]
                /\ demorequest' = demorequest
           ELSE IF Len(DemosToday(demorequest, checked.value, today))
                     >= free_demo_per_day
           THEN /\ demos' = [demos EXCEPT ![i].pc = "ended", ![i].status = 429]
                /\ demorequest' = demorequest
           ELSE /\ demorequest' = create_document(demorequest,
                       [email |-> checked.value, created_at |-> Datetime(today)])
                /\ demos' = [demos EXCEPT ![i].pc = "ended", ![i].status = 200,
                               ![i].created = Datetime(today),
                               ![i].id = StrOfOid(InsertedId(demorequest))]
    /\ UNCHANGED <<today, user, order, sample, logins, orders, resp>>

\* Lines 127-142: validate the DemoRequest and persist it with the current
\* time; a ValidationError ends the request with status 500.
CreateDemoPersist(i) ==
    /\ demos[i].pc = "l127"
    /\ LET checked == OptionalEmailStr(demos[i].email)
       IN  IF ~checked.ok
           THEN /\ demos' = [demos EXCEPT ![i].pc = "ended", ![i].status = 500]
                /\ demorequest' = demorequest
           ELSE /\ demorequest' = create_document(demorequest,
                       [email |-> checked.value, created_at |-> Datetime(today)])
                /\ demos' = [demos EXCEPT ![i].pc = "ended", ![i].status = 200,
                               ![i].created = Datetime(today),
                               ![i].id = StrOfOid(InsertedId(demorequest))]
    /\ UNCHANGED <<today, user, order, sample, logins, orders, resp>>

\* Midnight UTC passes.
Tick ==
    /\ today < MaxDay
    /\ today' = today + 1
    /\ UNCHANGED <<user, demorequest, order, sample, logins, demos, orders, resp>>

(***************************************************************************)
(* POST /orders/create, GET /orders, GET /orders/{order_id}                *)
(* (main.py, lines 148-231).                                               *)
(***************************************************************************)
ReadTierInputs == {"personal", "gold"}
ReadSpeedInputs == {"standard", "express", "overnight"}
OrderIdInputs ==
    {StrOfOid(OidValue(k)) : k \in 1..(MaxOrders + 1)} \cup {PyStr(<<"z">>)}

\* The fields both update statements set (lines 207 and 210).
Completed == [audio_urls |-> audio_urls, status |-> "completed"]

\* Request validation (OrderPayload: email a str, the Literal fields within
\* their enumerations) answers 422 before the handler runs.  Lines 172-200:
\* price and revision limit from the tables, the Order record (whose
\* EmailStr may raise a ValidationError inside the handler: status 500),
\* and the insert.
CreateOrderInsert(email, tier, speed) ==
    /\ Len(orders) < MaxOrders
    /\ IF email.t # "str" \/ tier \notin LicenseTiers \/ speed \notin DeliverySpeeds
       THEN /\ resp' = [op |-> "create_order", status |-> 422, email |-> email]
            /\ UNCHANGED <<order, orders>>
       ELSE IF ~EmailStr(email).ok
       THEN /\ resp' = [op |-> "create_order", status |-> 500, email |-> email]
            /\ UNCHANGED <<order, orders>>
       ELSE /\ order' = create_document(order,
                 [email |-> EmailStr(email).value,
                  license_tier |-> tier,
                  delivery_speed |-> speed,
                  price_cents |-> PriceCents(tier, speed),
                  revision_limit |-> DEFAULT_PRICING[tier].revisions,
                  revisions_used |-> 0,
                  status |-> "new",
                  audio_urls |-> None])
            /\ orders' = Append(orders, [pc |-> "l207", status |-> 0,
                                         order_id |-> StrOfOid(InsertedId(order))])
            /\ resp' = NoResp
    /\ UNCHANGED <<today, user, demorequest, sample, logins, demos>>

\* Mutant of FirstUpdateFilter: the chain yields the id of the first
\* document of the collection, as find_one()["_id"] would.
FirstUpdateFilterFirstId(coll) == IF coll = <<>> THEN None ELSE coll[1]._id

\* The filter value of the update at line 207: three nested find_one calls,
\* the innermost one filtering on the bound method find_one itself.
FirstUpdateFilter(coll) == find_one(coll, find_one(coll, find_one(coll, BoundMethod)))

\* Line 207.  The innermost filter holds a bound method, which BSON cannot
\* encode.  A driver that encodes the filter raises there (InvalidDocument):
\* the handler is left, the request ends with status 500 and the order stays
\* as inserted.  A store that compares the value as it is finds no document
\* at any level of the chain.  db is database.db, whose code is not among
\* the sources: both outcomes are kept.
CreateOrderFirstUpdate(i) ==
    /\ orders[i].pc = "l207"
    /\ \/ /\ ~Encodable(BoundMethod)
          /\ orders' = [orders EXCEPT ![i].pc = "ended", ![i].status = 500]
          /\ order' = order
       \/ /\ order' = update_one(order, FirstUpdateFilter(order), Completed)
          /\ orders' = [orders EXCEPT ![i].pc = "l210"]
    /\ resp' = NoResp
    /\ UNCHANGED <<today, user, demorequest, sample, logins, demos>>

\* Mutant of CreateOrderUpdateById: the update sets the status and leaves
\* audio_urls out.
CreateOrderUpdateByIdStatusOnly(i) ==
    /\ orders[i].pc = "l210"
    /\ order' = update_one(order, ObjectId(orders[i].order_id),
                           [status |-> "completed"])
    /\ orders' = [orders EXCEPT ![i].pc = "ended", ![i].status = 200]
    /\ resp' = NoResp
    /\ UNCHANGED <<today, user, demorequest, sample, logins, demos>>

\* Lines 209-212: the update by the id of the inserted order, and the return.
CreateOrderUpdateById(i) ==
    /\ orders[i].pc = "l210"
    /\ order' = update_one(order, ObjectId(orders[i].order_id), Completed)
    /\ orders' = [orders EXCEPT ![i].pc = "ended", ![i].status = 200]
    /\ resp' = NoResp
    /\ UNCHANGED <<today, user, demorequest, sample, logins, demos>>

\* d["_id"] = str(d["_id"])
Stringify(d) == [d EXCEPT !._id = StrOfOid(d._id)]

\* Mutant of OrdersQuery: the email is never put into the query.
OrdersQueryNoFilter(email) == <<>>

\* Line 217: the query holds the email only when it is truthy.
OrdersQuery(email) == IF Truthy(email) THEN [email |-> email] ELSE <<>>

\* The body of list_orders (lines 216-221): the documents returned.
list_orders(coll, email) ==
    LET docs == get_documents(coll, OrdersQuery(email), 0)
    IN  [i \in 1..Len(docs) |-> Stringify(docs[i])]

\* The body of get_order (lines 225-231).
get_order(coll, order_id) ==
    IF ~IsOidString(order_id) THEN [status |-> 500, doc |-> None]
    ELSE LET doc == find_one(coll, ObjectId(order_id))
         IN  IF doc = None THEN [status |-> 404, doc |-> None]
             ELSE [status |-> 200, doc |-> Stringify(doc)]

ListOrders(email) ==
    /\ resp' = [op |-> "list_orders", email |-> email,
                orders |-> list_orders(order, email)]
    /\ UNCHANGED <<today, user, demorequest, order, sample, logins, demos, orders>>

GetOrder(order_id) ==
    /\ resp' = [op |-> "get_order", order_id |-> order_id]
                 @@ get_order(order, order_id)
    /\ UNCHANGED <<today, user, demorequest, order, sample, logins, demos, orders>>

(***************************************************************************)
(* POST /samples, GET /samples (main.py, lines 249-267).                   *)
(***************************************************************************)
TitleInputs == {"Song A", "Song B"}
CategoryInputs == SampleCategories \cup {"Rock"}

\* SamplePayload takes any str as category; the dict of the payload is
\* stored as it is.  The Sample schema is not used.
SamplesCreate(title, category) ==
    /\ Len(sample) < MaxSamples
    /\ sample' = create_document(sample,
                    [title |-> title, category |-> category,
                     description |-> None, audio_url |-> "sample.mp3"])
    /\ resp' = [op |-> "samples_create", status |-> 200, category |-> category,
                id |-> StrOfOid(InsertedId(sample))]
    /\ UNCHANGED <<today, user, demorequest, order, logins, demos, orders>>

SamplesList ==
    /\ resp' = [op |-> "samples_list",
                samples |-> [i \in 1..Len(sample) |-> Stringify(sample[i])]]
    /\ UNCHANGED <<today, user, demorequest, order, sample, logins, demos, orders>>

Init ==
    /\ today = 0
    /\ user = <<>>
    /\ demorequest = <<>>
    /\ order = <<>>
    /\ sample = <<>>
    /\ logins = <<>>
    /\ demos = <<>>
    /\ orders = <<>>
    /\ resp = NoResp

\* Logins of concurrent requests.
NextLogin ==
    \/ \E email \in EmailInputs, name \in NameInputs : AuthLoginLookup(email, name)
    \/ \E i \in 1..Len(logins) : AuthLoginFinish(i)

SpecLogin == Init /\ [][NextLogin]_vars

\* Logins served one after another: a request enters when none is in flight.
SeqAuthLoginLookup(email, name) == AllEnded(logins) /\ AuthLoginLookup(email, name)

NextLoginSeq ==
    \/ \E email \in EmailInputs, name \in NameInputs : SeqAuthLoginLookup(email, name)
    \/ \E i \in 1..Len(logins) : AuthLoginFinish(i)

SpecLoginSeq == Init /\ [][NextLoginSeq]_vars

\* Demo requests of concurrent clients.
NextDemo ==
    \/ \E email \in EmailInputs : CreateDemoCheck(email)
    \/ \E i \in 1..Len(demos) : CreateDemoPersist(i)
    \/ Tick

SpecDemo == Init /\ [][NextDemo]_vars

\* Demo requests served one after another.
SeqCreateDemoCheck(email) == AllEnded(demos) /\ CreateDemoCheck(email)

NextDemoSeq ==
    \/ \E email \in EmailInputs : SeqCreateDemoCheck(email)
    \/ \E i \in 1..Len(demos) : CreateDemoPersist(i)
    \/ Tick

SpecDemoSeq == Init /\ [][NextDemoSeq]_vars

\* Orders being created by concurrent clients, over every license tier and
\* delivery speed.
NextOrder ==
    \/ \E email \in {EmailA, EmailB}, tier \in LicenseTiers, speed \in DeliverySpeeds :
          CreateOrderInsert(email, tier, speed)
    \/ \E i \in 1..Len(orders) : CreateOrderFirstUpdate(i)
    \/ \E i \in 1..Len(orders) : CreateOrderUpdateById(i)

SpecOrder == Init /\ [][NextOrder]_vars

\* Orders being created while other clients read them, over every email
\* input, valid and invalid tiers and speeds.
NextOrderRead ==
    \/ \E email \in EmailInputs, tier \in ReadTierInputs, speed \in ReadSpeedInputs :
          CreateOrderInsert(email, tier, speed)
    \/ \E i \in 1..Len(orders) : CreateOrderFirstUpdate(i)
    \/ \E i \in 1..Len(orders) : CreateOrderUpdateById(i)
    \/ \E email \in EmailInputs : ListOrders(email)
    \/ \E order_id \in OrderIdInputs : GetOrder(order_id)

SpecOrderRead == Init /\ [][NextOrderRead]_vars

NextSample ==
    \/ \E title \in TitleInputs, category \in CategoryInputs :
          SamplesCreate(title, category)
    \/ SamplesList

SpecSample == Init /\ [][NextSample]_vars


(***************************************************************************)
(* Properties.                                                             *)
(***************************************************************************)
Returned(i) == orders[i].pc = "ended" /\ orders[i].status = 200

\* The price the tables give for a stored order's tier and speed.
TablePrice(doc) ==
    DEFAULT_PRICING[doc.license_tier].price_cents
      + (IF doc.delivery_speed = "standard" THEN 0
         ELSE EXPRESS_FEES[doc.delivery_speed])

\* C1: every order document persisted by /orders/create has price_cents
\* equal to the pricing table's price for its license tier plus the express
\* fee for its delivery speed (0 for standard), and no later step of any
\* request changes a stored price_cents (or removes the document).
C1_PricePersisted ==
    /\ [](\A k \in 1..Len(order) : order[k].price_cents = TablePrice(order[k]))
    /\ [][/\ Len(order') >= Len(order)
          /\ \A k \in 1..Len(order) :
                order'[k].price_cents = order[k].price_cents]_vars

\* C1 witness: the spec's two examples are stored (standard + express =
\* 4899, exclusive + standard = 49900), the first one already completed by
\* the update that followed its insert.
C1_Witness ==
    /\ Len(order) = 2
    /\ order[1].license_tier = "standard" /\ order[1].delivery_speed = "express"
    /\ order[1].price_cents = 4899 /\ order[1].status = "completed"
    /\ order[2].license_tier = "exclusive" /\ order[2].delivery_speed = "standard"
    /\ order[2].price_cents = 49900

\* C2 (as claimed): with requests served one after another, once a
\* /demo/create for email E has succeeded, a later /demo/create for E whose
\* day is the day of that demo ends 429 and persists nothing; and a request
\* with a valid email that has no other demo on its day succeeds.
C2_SecondDemoSameDayLimited ==
    /\ \A i \in 1..Len(demos) : \A j \in (i + 1)..Len(demos) :
          ( /\ demos[i].status = 200
            /\ Truthy(demos[i].email)
            /\ demos[j].email = demos[i].email
            /\ Datetime(demos[j].today) = demos[i].created )
          => /\ demos[j].pc = "ended"
             /\ demos[j].status = 429
             /\ demos[j].id = None
    /\ \A j \in 1..Len(demos) :
          ( /\ demos[j].pc = "ended"
            /\ EmailStr(demos[j].email).ok
            /\ \A k \in 1..Len(demorequest) :
                  ( /\ demorequest[k].email = EmailStr(demos[j].email).value
                    /\ demorequest[k].created_at = Datetime(demos[j].today) )
                  => StrOfOid(demorequest[k]._id) = demos[j].id )
          => demos[j].status = 200

\* C3 (as claimed): with logins served one after another, a login with the
\* email of an earlier successful login returns that login's user_id, and
\* no two User records carry the same email.
C3_SequentialLoginIdempotent ==
    /\ \A i \in 1..Len(logins) : \A j \in (i + 1)..Len(logins) :
          ( /\ logins[i].status = 200
            /\ logins[j].pc = "ended"
            /\ logins[j].email = logins[i].email )
          => /\ logins[j].status = 200
             /\ logins[j].user_id = logins[i].user_id
    /\ \A k, l \in 1..Len(user) : user[k].email = user[l].email => k = l

\* C4: once a /orders/create request has returned its order_id (which it
\* does only when every step after the insert, the update at line 207
\* included, went through), GET /orders/{order_id} answers 200 with that
\* order, whose status is completed and whose audio_urls are exactly the two
\* generated URLs.
C4_ReturnedOrderCompleted ==
    /\ \A i \in 1..Len(orders) : Returned(i) =>
          LET r == get_order(order, orders[i].order_id)
          IN  /\ r.status = 200
              /\ r.doc._id = orders[i].order_id
              /\ r.doc.status = "completed"
              /\ r.doc.audio_urls = audio_urls
              /\ Len(r.doc.audio_urls.s) = 2
    /\ ( /\ resp.op = "get_order"
         /\ \E i \in 1..Len(orders) : Returned(i) /\ orders[i].order_id = resp.order_id )
       => /\ resp.status = 200
          /\ resp.doc.status = "completed"
          /\ resp.doc.audio_urls = audio_urls

\* C4 witness: a GET of an order whose create request has returned, while
\* another order is still as inserted.
C4_Witness ==
    /\ resp.op = "get_order"
    /\ resp.status = 200
    /\ \E i \in 1..Len(orders) : Returned(i) /\ orders[i].order_id = resp.order_id
    /\ \E k \in 1..Len(order) : order[k].status = "new"

\* C5 (as claimed): a POST /samples whose category is outside the
\* enumeration ends 422 and stores nothing: no stored sample has such a
\* category.
C5_UnknownCategoryRejected ==
    /\ (resp.op = "samples_create" /\ resp.category \notin SampleCategories)
          => resp.status = 422
    /\ \A k \in 1..Len(sample) : sample[k].category \in SampleCategories

\* The orders a GET /orders returned, and the stored orders with an email.
ReturnedOrders == {resp.orders[k] : k \in 1..Len(resp.orders)}
StoredWithEmail(email) ==
    {Stringify(order[k]) : k \in {n \in 1..Len(order) : order[n].email = email}}
StoredOrders == {Stringify(order[k]) : k \in 1..Len(order)}

\* C6 (as claimed): GET /orders?email=X, for any supplied X, the empty
\* string included, returns exactly the stored orders whose email equals X.
C6_ListExactlyMatching ==
    (resp.op = "list_orders" /\ resp.email.t = "str")
       => /\ ReturnedOrders = StoredWithEmail(resp.email)
          /\ Len(resp.orders) = Cardinality(StoredWithEmail(resp.email))

\* C6 (amended): for a non-empty X, GET /orders?email=X returns exactly the
\* stored orders whose email equals X; for the empty string, as for no
\* email at all, it returns every stored order.
C6_ListMatchingOrAll ==
    resp.op = "list_orders"
       => LET expected == IF Truthy(resp.email) THEN StoredWithEmail(resp.email)
                          ELSE StoredOrders
          IN  /\ ReturnedOrders = expected
              /\ Len(resp.orders) = Cardinality(expected)

\* C6 witness: orders with two different emails are stored and a GET for
\* one of the emails returned the one order that carries it.
C6_Witness ==
    /\ resp.op = "list_orders"
    /\ Truthy(resp.email)
    /\ Len(resp.orders) = 1
    /\ Len(order) = 2
    /\ order[1].email # order[2].email

\* A str that EmailStr rejects.
Malformed(v) == v.t = "str" /\ ~EmailStr(v).ok

\* C7 (as claimed): an /auth/login, /demo/create or /orders/create request
\* whose email is malformed ends 422, not 500, and persists no record.
C7_MalformedEmailIs422 ==
    /\ \A i \in 1..Len(logins) :
          (logins[i].pc = "ended" /\ Malformed(logins[i].email))
             => logins[i].status = 422 /\ logins[i].user_id = None
    /\ \A i \in 1..Len(demos) :
          (demos[i].pc = "ended" /\ Malformed(demos[i].email))
             => demos[i].status = 422 /\ demos[i].id = None
    /\ (resp.op = "create_order" /\ Malformed(resp.email)) => resp.status = 422

\* Two logins i and j with the same email whose lookups both found no user.
RacingLogins(i, j) ==
    /\ i # j
    /\ logins[i].pc = "ended" /\ logins[i].status = 200
    /\ logins[j].pc = "ended" /\ logins[j].status = 200
    /\ logins[i].email = logins[j].email
    /\ logins[i].existing = <<>>
    /\ logins[j].existing = <<>>

\* C8: when the lookups of two /auth/login requests for the same email both
\* return no user before either create, both requests create a User: they
\* return different user_ids, and two User records carry the same email.
C8_RacingLoginsDuplicate ==
    \A i, j \in 1..Len(logins) : RacingLogins(i, j) =>
       /\ logins[i].user_id # logins[j].user_id
       /\ \E k, l \in 1..Len(user) :
             /\ k # l
             /\ StrOfOid(user[k]._id) = logins[i].user_id
             /\ StrOfOid(user[l]._id) = logins[j].user_id
             /\ user[k].email = user[l].email

\* C8 witness: two such logins have ended.
C8_Witness ==
    /\ \E i, j \in 1..Len(logins) : RacingLogins(i, j)
    /\ Len(user) = 2
    /\ user[1].email = user[2].email

\* The stored demos with a stored email value and a creation time.
DemosStored(email, created) ==
    {k \in 1..Len(demorequest) :
        demorequest[k].email = email /\ demorequest[k].created_at = created}

\* C9: a /demo/create request whose count check saw fewer demos than the
\* limit persists its DemoRequest whatever was persisted since the check;
\* so two requests for one email that both passed the check leave more than
\* free_demo_per_day DemoRequests for that email on the day they were
\* created.
C9_RacingDemosExceedLimit ==
    /\ \A i \in 1..Len(demos) :
          ( /\ demos[i].pc = "ended"
            /\ demos[i].status # 403
            /\ demos[i].ndemos < free_demo_per_day
            /\ OptionalEmailStr(demos[i].email).ok )
          => /\ demos[i].status = 200
             /\ \E k \in 1..Len(demorequest) :
                   /\ StrOfOid(demorequest[k]._id) = demos[i].id
                   /\ demorequest[k].created_at = demos[i].created
    /\ \A i, j \in 1..Len(demos) :
          ( /\ i # j
            /\ demos[i].status = 200 /\ demos[j].status = 200
            /\ demos[i].email = demos[j].email
            /\ demos[i].created = demos[j].created )
          => Cardinality(DemosStored(OptionalEmailStr(demos[i].email).value,
                                     demos[i].created)) > free_demo_per_day

\* C9 witness: two requests for the same email checked and persisted on the
\* same day, and that email has two demos on that day.
C9_Witness ==
    \E i, j \in 1..Len(demos) :
       /\ i # j
       /\ demos[i].status = 200 /\ demos[j].status = 200
       /\ Truthy(demos[i].email)
       /\ demos[i].email = demos[j].email
       /\ demos[i].today = demos[j].today
       /\ demos[i].created = Datetime(demos[i].today)
       /\ demos[j].created = Datetime(demos[j].today)
       /\ Cardinality(DemosStored(EmailStr(demos[i].email).value, demos[i].created))
             > free_demo_per_day

\* C10: the update at line 207 matches no document, whatever the order
\* collection holds: the step that takes a request past line 207 leaves the
\* collection as it is, and the only step that changes a stored order is
\* the update by id at line 210, which changes the order of its own request.
C10_FirstUpdateMatchesNothing ==
    /\ [](update_one(order, FirstUpdateFilter(order), Completed) = order)
    /\ [][/\ \A i \in 1..Len(orders) :
                (orders[i].pc = "l207" /\ orders'[i].pc # "l207") => order' = order
          /\ \A k \in 1..Len(order) :
                order'[k] # order[k] =>
                   \E i \in 1..Len(orders) :
                      /\ orders[i].pc = "l210"
                      /\ orders'[i].pc = "ended"
                      /\ order[k]._id = ObjectId(orders[i].order_id)]_vars

\* C10 witness: a request is past line 207 while the collection holds two
\* orders, both still as inserted.
C10_Witness ==
    /\ Len(order) = 2
    /\ \E i \in 1..Len(orders) : orders[i].pc = "l210"
    /\ \A k \in 1..Len(order) : order[k].status = "new" /\ order[k].audio_urls = None

=============================================================================
